---- MODULE Spec2Model ----
(***************************************************************************)
(* The REST API of the expense tracker (src/app.py) over its one SQLite    *)
(* table.  Every handler opens its own connection; a handler's position    *)
(* between two SQL statements is a state of the model, so that requests    *)
(* served by different workers interleave statement by statement.          *)
(*                                                                         *)
(* Text is a sequence of character codes (ASCII), compared the way SQLite  *)
(* compares TEXT under the BINARY collation.  Numbers are fixed point with *)
(* three decimals, held as an integer count of thousandths.                *)
(***************************************************************************)
EXTENDS Integers, Sequences, FiniteSets, TLC

\* ------------------------------------------------------------------ bounds
\* Largest rowid the table may hand out before creates are refused.
MaxId == 3

\* The workers of the threaded development server; Spec drives one of them.
Workers == {1, 2}

\* ------------------------------------------------------------------- text
Dash == 45
Dot == 46
Colon == 58
UpperT == 84
Digit(d) == 48 + d
IsDigit(c) == c >= 48 /\ c <= 57

EmptyText == << >>
Lunch == <<76, 117, 110, 99, 104>>
Food == <<70, 111, 111, 100>>
Taxi == <<84, 97, 120, 105>>
Travel == <<84, 114, 97, 118, 101, 108>>
TextAbc == <<97, 98, 99>>
TextNan == <<110, 97, 110>>
Text12346 == <<49, 50, 46, 51, 52, 54>>
TextMinus5 == <<45, 53>>
Text01 == <<48, 49>>

\* memcmp order of two texts: a proper prefix is the smaller one.
RECURSIVE TextLess(_, _)
TextLess(a, b) ==
  IF b = << >> THEN FALSE
  ELSE IF a = << >> THEN TRUE
  ELSE IF Head(a) # Head(b) THEN Head(a) < Head(b)
  ELSE TextLess(Tail(a), Tail(b))

TextLeq(a, b) == a = b \/ TextLess(a, b)

\* str(n) of a natural number: decimal digits, no padding.
RECURSIVE Decimal(_)
Decimal(n) == IF n < 10 THEN <<Digit(n)>> ELSE Decimal(n \div 10) \o <<Digit(n % 10)>>

\* format(n, "02d") and format(n, "04d"): zero padded to a minimum width.
RECURSIVE PadTo(_, _)
PadTo(t, w) == IF Len(t) >= w THEN t ELSE PadTo(<<Digit(0)>> \o t, w)

Pad2(n) == PadTo(Decimal(n), 2)
Pad4(n) == PadTo(Decimal(n), 4)

\* datetime.isoformat() of a time with no microseconds.
IsoFormat(dt) ==
  Pad4(dt.y) \o <<Dash>> \o Pad2(dt.m) \o <<Dash>> \o Pad2(dt.d) \o <<UpperT>>
    \o Pad2(dt.h) \o <<Colon>> \o Pad2(dt.mi) \o <<Colon>> \o Pad2(dt.s)

\* A calendar date written the ISO way, as a client writes it.
IsoDate(y, m, d) == Pad4(y) \o <<Dash>> \o Pad2(m) \o <<Dash>> \o Pad2(d)

\* ------------------------------------------------------------ JSON values
\* A value of the request body as Python sees it after get_json(): t is its
\* type, s its text (strings), n its number in thousandths (numbers) or its
\* length (lists).  "absent" is a key the object does not have.
JAbsent == [t |-> "absent", s |-> EmptyText, n |-> 0]
JNull == [t |-> "null", s |-> EmptyText, n |-> 0]
JStr(x) == [t |-> "str", s |-> x, n |-> 0]
JNum(m) == [t |-> "num", s |-> EmptyText, n |-> m]
JList(len) == [t |-> "list", s |-> EmptyText, n |-> len]

\* data.get(key) is None for a missing key and for a JSON null.
IsNone(v) == v.t \in {"absent", "null"}

\* Python truth value, as `not x` tests it.
Truthy(v) ==
  CASE v.t = "str" -> v.s # EmptyText
    [] v.t = "num" -> v.n # 0
    [] v.t = "list" -> v.n > 0
    [] OTHER -> FALSE

RECURSIVE AllDigits(_)
AllDigits(t) == t = << >> \/ (IsDigit(Head(t)) /\ AllDigits(Tail(t)))

RECURSIVE DigitsValue(_)
DigitsValue(t) ==
  IF t = << >> THEN 0 ELSE 10 * DigitsValue(SubSeq(t, 1, Len(t) - 1)) + (t[Len(t)] - 48)

RECURSIVE PadRight(_, _)
PadRight(t, w) == IF Len(t) >= w THEN t ELSE PadRight(t \o <<Digit(0)>>, w)

DotAt(t) == IF \E i \in 1..Len(t) : t[i] = Dot THEN CHOOSE i \in 1..Len(t) : t[i] = Dot ELSE 0

\* float(text) on the texts of the form [-]digits[.digits] with at most three
\* decimals, and on "nan"; any other text of the model raises ValueError.
ParseFloat(t) ==
  LET neg == t # << >> /\ Head(t) = Dash
      u == IF neg THEN Tail(t) ELSE t
      k == DotAt(u)
      whole == IF k = 0 THEN u ELSE SubSeq(u, 1, k - 1)
      frac == IF k = 0 THEN << >> ELSE SubSeq(u, k + 1, Len(u))
      wellFormed == /\ whole # << >> /\ AllDigits(whole)
                    /\ AllDigits(frac) /\ Len(frac) <= 3
                    /\ (k = 0 \/ frac # << >>)
      mag == 1000 * DigitsValue(whole) + DigitsValue(PadRight(frac, 3))
  IN  IF t = TextNan THEN [k |-> "nan", v |-> 0]
      ELSE IF wellFormed THEN [k |-> "ok", v |-> IF neg THEN 0 - mag ELSE mag]
      ELSE [k |-> "ValueError", v |-> 0]

\* float(amount): the number itself, the parse of a string, TypeError for
\* anything that is neither.
PyFloat(v) ==
  CASE v.t = "num" -> [k |-> "ok", v |-> v.n]
    [] v.t = "str" -> ParseFloat(v.s)
    [] OTHER -> [k |-> "TypeError", v |-> 0]

\* ----------------------------------------------------------------- SQLite
\* sqlite3 binds None, int, float and str; any other Python value raises.
Bindable(v) == v.t # "list"

\* Text of a number with at most three decimals, as SQLite renders it.
NumText(n) ==
  LET mag == IF n < 0 THEN 0 - n ELSE n
      frac == PadTo(Decimal(mag % 1000), 3)
      cut == IF frac[3] # Digit(0) THEN 3 ELSE IF frac[2] # Digit(0) THEN 2 ELSE 1
      body == IF mag % 1000 = 0 THEN Decimal(mag \div 1000)
              ELSE Decimal(mag \div 1000) \o <<Dot>> \o SubSeq(frac, 1, cut)
  IN  IF n < 0 THEN <<Dash>> \o body ELSE body

\* A column declared TEXT stores a bound number as its text.
ColumnText(v) == IF v.t = "num" THEN NumText(v.n) ELSE v.s

Max(a, b) == IF a >= b THEN a ELSE b

MaxRowid(st) == IF st = {} THEN 0 ELSE CHOOSE i \in {r.id : r \in st} : \A r \in st : r.id <= i

\* Without AUTOINCREMENT a rowid is one more than the largest in the table.
NextRowidNoAutoincrement(st, sq) == MaxRowid(st) + 1

\* INTEGER PRIMARY KEY AUTOINCREMENT: one more than the largest rowid the table
\* has ever held, which sqlite_sequence remembers across deletes.
NextRowid(st, sq) == Max(sq, MaxRowid(st)) + 1

Ids(st) == {r.id : r \in st}

\* SELECT * FROM expenses WHERE id = ?
SelectById(st, id) == {r \in st : r.id = id}

\* The row as INSERT stores it: TEXT columns by affinity, amount as REAL.
NewRow(id, title, category, amount, date) ==
  [id |-> id, title |-> ColumnText(title), category |-> ColumnText(category),
   amount |-> amount, date |-> ColumnText(date)]

\* dict(row): the stored row as a JSON object.
row_to_dict(r) ==
  [id |-> r.id, title |-> JStr(r.title), category |-> JStr(r.category),
   amount |-> JNum(r.amount), date |-> JStr(r.date)]

\* The sequences that list every row of st exactly once.
Listings(st) ==
  {f \in [1..Cardinality(st) -> st] : \A i, j \in 1..Cardinality(st) : i # j => f[i] # f[j]}

\* ORDER BY date DESC: newest text first; rows of equal date in any order.
DateOrdered(f) == \A i \in 1..(Len(f) - 1) : TextLeq(f[i + 1].date, f[i].date)

OrderByDateDesc(st) == {f \in Listings(st) : DateOrdered(f)}

RECURSIVE SumAmount(_)
SumAmount(st) ==
  IF st = {} THEN 0 ELSE LET r == CHOOSE x \in st : TRUE IN r.amount + SumAmount(st \ {r})

\* round(num / den, 2) of a non-negative quotient of thousandths: to the nearest
\* hundredth, a tie going to the even one.
Round2(num, den) ==
  LET q == num \div (10 * den)
      r == num % (10 * den)
  IN  10 * (IF 2 * r < 10 * den THEN q
            ELSE IF 2 * r > 10 * den THEN q + 1
            ELSE IF q % 2 = 0 THEN q ELSE q + 1)

\* The bounds of the month query, as the handler formats them.
StartDate(year, month) == Decimal(year) \o <<Dash>> \o Pad2(month) \o <<Dash>> \o Text01

EndDate(year, month) ==
  IF month = 12 THEN Decimal(year + 1) \o <<Dash>> \o Text01 \o <<Dash>> \o Text01
  ELSE Decimal(year) \o <<Dash>> \o Pad2(month + 1) \o <<Dash>> \o Text01

\* WHERE date >= ? AND date < ?
InRange(r, lo, hi) == TextLeq(lo, r.date) /\ TextLess(r.date, hi)

\* ------------------------------------------------------------------ state
VARIABLES
  store,     \* the rows of table expenses
  seq,       \* sqlite_sequence: the largest rowid the table has ever held
  issued,    \* the ids the successful creates have returned, oldest first
  pc,        \* each worker's position in the handler it is running
  req,       \* each worker's current request
  resp,      \* each worker's response, once its handler has returned
  count,     \* delete_all_expenses: the COUNT(*) it read
  rowcount,  \* the rows the worker's last DELETE or UPDATE statement changed
  conn       \* each worker's connection: "none", "open" or "closed"

vars == <<store, seq, issued, pc, req, resp, count, rowcount, conn>>

NoBody ==
  [kind |-> "none", title |-> JAbsent, category |-> JAbsent, amount |-> JAbsent,
   date |-> JAbsent]

\* A JSON object with the four keys the handlers read.
Body(title, category, amount, date) ==
  [kind |-> "object", title |-> title, category |-> category, amount |-> amount,
   date |-> date]

\* A body that is no object: JSON null, a non-empty JSON array, or text that
\* is not JSON.
OtherBody(kind) == [NoBody EXCEPT !.kind = kind]

Request(kind, id, body, year, month) ==
  [kind |-> kind, id |-> id, body |-> body, year |-> year, month |-> month]

NoRequest == Request("none", 0, NoBody, 0, 0)

Response(status, shape, msg, rows, n, total, average) ==
  [status |-> status, shape |-> shape, msg |-> msg, rows |-> rows, n |-> n,
   total |-> total, average |-> average]

NoResponse == Response(0, "none", "", << >>, 0, 0, 0)

\* jsonify({'error': ...}), status
Error(status, msg) == Response(status, "error", msg, << >>, 0, 0, 0)

\* jsonify(one expense), status
Object(status, d) == Response(status, "object", "", <<d>>, 0, 0, 0)

\* jsonify(list of expenses), 200
Array(rows) == Response(200, "array", "", rows, 0, 0, 0)

\* jsonify({'message': ...}), 200
Message(msg, n) == Response(200, "message", msg, << >>, n, 0, 0)

\* The handler has passed validation.
Passed == Response(0, "none", "", << >>, 0, 0, 0)

\* `not data`: None and the empty object are false.
Falsy(body) ==
  \/ body.kind = "null"
  \/ /\ body.kind = "object"
     /\ body.title.t = "absent" /\ body.category.t = "absent"
     /\ body.amount.t = "absent" /\ body.date.t = "absent"

\* Validation with the positivity test left out.
ValidatedNoSignCheck(body, missing) ==
  IF body.kind = "unparseable" THEN Error(500, "exception")
  ELSE IF Falsy(body) THEN Error(400, "No data provided")
  ELSE IF body.kind # "object" THEN Error(500, "exception")
  ELSE IF ~Truthy(body.title) \/ ~Truthy(body.category) \/ IsNone(body.amount)
  THEN Error(400, missing)
  ELSE LET f == PyFloat(body.amount)
       IN  CASE f.k = "ValueError" -> Error(400, "Amount must be a valid number")
             [] f.k = "TypeError" -> Error(500, "exception")
             [] OTHER -> Passed

\* The part of add_expense and update_expense that runs before the connection
\* is opened: the response it returns, or Passed.  get_json() raises on text
\* that is not JSON, data.get raises on a body that is no object and float()
\* raises TypeError on a list: the handler's `except Exception` answers 500.
Validated(body, missing) ==
  IF body.kind = "unparseable" THEN Error(500, "exception")
  ELSE IF Falsy(body) THEN Error(400, "No data provided")
  ELSE IF body.kind # "object" THEN Error(500, "exception")
  ELSE IF ~Truthy(body.title) \/ ~Truthy(body.category) \/ IsNone(body.amount)
  THEN Error(400, missing)
  ELSE LET f == PyFloat(body.amount)
       IN  CASE f.k = "ok" /\ f.v <= 0 -> Error(400, "Amount must be a positive number")
             [] f.k = "ValueError" -> Error(400, "Amount must be a valid number")
             [] f.k = "TypeError" -> Error(500, "exception")
             [] OTHER -> Passed

Init ==
  /\ store = {}
  /\ seq = 0
  /\ issued = << >>
  /\ pc = [t \in Workers |-> "idle"]
  /\ req = [t \in Workers |-> NoRequest]
  /\ resp = [t \in Workers |-> NoResponse]
  /\ count = [t \in Workers |-> 0]
  /\ rowcount = [t \in Workers |-> 0]
  /\ conn = [t \in Workers |-> "none"]

\* The worker is free to take the next request.
Free(t) == pc[t] \in {"idle", "done"}

\* The handler returns r.
Return(t, r, c) ==
  /\ pc' = [pc EXCEPT ![t] = "done"]
  /\ resp' = [resp EXCEPT ![t] = r]
  /\ conn' = [conn EXCEPT ![t] = c]

\* The handler goes on to its next statement.
Goto(t, label) ==
  /\ pc' = [pc EXCEPT ![t] = label]
  /\ conn' = [conn EXCEPT ![t] = "open"]
  /\ resp' = [resp EXCEPT ![t] = NoResponse]

\* The worker takes request r: what the previous handler left is forgotten.
Accept(t, r) ==
  /\ Free(t)
  /\ req' = [req EXCEPT ![t] = r]

\* The locals of the previous handler are gone.
Fresh(t) ==
  /\ count' = [count EXCEPT ![t] = 0]
  /\ rowcount' = [rowcount EXCEPT ![t] = 0]

\* --------------------------------------------------------------- handlers
\* GET /api/expenses
get_expenses(t) ==
  /\ Accept(t, Request("list", 0, NoBody, 0, 0))
  /\ \E rows \in OrderByDateDesc(store) :
       Return(t, Array([i \in 1..Len(rows) |-> row_to_dict(rows[i])]), "closed")
  /\ Fresh(t)
  /\ UNCHANGED <<store, seq, issued>>

\* The date add_expense stores: the submitted one, or the clock's.
DateOf(body, now) == IF body.date.t = "absent" THEN JStr(IsoFormat(now)) ELSE body.date

\* The INSERT raises: a value sqlite3 cannot bind, or NULL in a NOT NULL
\* column (None for the date; NaN, which SQLite binds as NULL, for the amount).
InsertRaises(body, date) ==
  \/ ~Bindable(body.title) \/ ~Bindable(body.category) \/ ~Bindable(date)
  \/ IsNone(date)
  \/ PyFloat(body.amount).k = "nan"

\* POST /api/expenses: one INSERT, so the handler is one step.  An insert is
\* taken only while the table has ids below MaxId left to hand out.
add_expense(t, body, now) ==
  LET v == Validated(body, "Missing required fields: title, category, amount")
      date == DateOf(body, now)
      id == NextRowid(store, seq)
      amount == PyFloat(body.amount).v
  IN  /\ Accept(t, Request("create", 0, body, 0, 0))
      /\ Fresh(t)
      /\ IF v # Passed
         THEN /\ Return(t, v, "none")
              /\ UNCHANGED <<store, seq, issued>>
         ELSE IF InsertRaises(body, date)
         THEN /\ Return(t, Error(500, "exception"), "open")
              /\ UNCHANGED <<store, seq, issued>>
         ELSE /\ seq < MaxId
              /\ store' = store \cup {NewRow(id, body.title, body.category, amount, date)}
              /\ seq' = id
              /\ issued' = Append(issued, id)
              /\ Return(t, Object(201, [id |-> id, title |-> body.title,
                                        category |-> body.category,
                                        amount |-> JNum(amount), date |-> date]),
                        "closed")

\* PUT /api/expenses/<id>, up to the existence check.
update_expense_select(t, id, body) ==
  LET v == Validated(body, "Missing required fields")
  IN  /\ Accept(t, Request("update", id, body, 0, 0))
      /\ Fresh(t)
      /\ IF v # Passed THEN Return(t, v, "none")
         ELSE IF SelectById(store, id) = {} THEN Return(t, Error(404, "Expense not found"), "closed")
         ELSE Goto(t, "update")
      /\ UNCHANGED <<store, seq, issued>>

\* UPDATE with the id left out of the frame: every row is overwritten.
UpdatedEveryRow(st, id, body) ==
  {[r EXCEPT !.title = ColumnText(body.title), !.category = ColumnText(body.category),
             !.amount = PyFloat(body.amount).v] : r \in st}

\* UPDATE expenses SET title = ?, category = ?, amount = ? WHERE id = ?
Updated(st, id, body) ==
  {IF r.id = id
   THEN [r EXCEPT !.title = ColumnText(body.title), !.category = ColumnText(body.category),
                  !.amount = PyFloat(body.amount).v]
   ELSE r : r \in st}

\* The UPDATE raises: a value sqlite3 cannot bind, or NaN (NULL) for the amount
\* of a row that is there to be updated.
UpdateRaises(st, id, body) ==
  \/ ~Bindable(body.title) \/ ~Bindable(body.category)
  \/ PyFloat(body.amount).k = "nan" /\ SelectById(st, id) # {}

\* The UPDATE statement and its commit.
update_expense_write(t) ==
  /\ pc[t] = "update"
  /\ IF UpdateRaises(store, req[t].id, req[t].body)
     THEN /\ Return(t, Error(500, "exception"), "open")
          /\ UNCHANGED <<store, rowcount>>
     ELSE /\ store' = Updated(store, req[t].id, req[t].body)
          /\ rowcount' = [rowcount EXCEPT ![t] = Cardinality(SelectById(store, req[t].id))]
          /\ Goto(t, "reread")
  /\ UNCHANGED <<seq, issued, req, count>>

\* The second SELECT; dict(None) raises when the row is gone.
update_expense_reread(t) ==
  /\ pc[t] = "reread"
  /\ IF SelectById(store, req[t].id) = {}
     THEN Return(t, Error(500, "exception"), "closed")
     ELSE \E r \in SelectById(store, req[t].id) : Return(t, Object(200, row_to_dict(r)), "closed")
  /\ UNCHANGED <<store, seq, issued, req, count, rowcount>>

\* DELETE /api/expenses/<id>, up to the existence check.
delete_expense_select(t, id) ==
  /\ Accept(t, Request("delete", id, NoBody, 0, 0))
  /\ Fresh(t)
  /\ IF SelectById(store, id) = {} THEN Return(t, Error(404, "Expense not found"), "closed")
     ELSE Goto(t, "delete")
  /\ UNCHANGED <<store, seq, issued>>

\* DELETE with the WHERE clause lost.
DeletedAll(st, id) == {}

\* DELETE FROM expenses WHERE id = ?
Deleted(st, id) == {r \in st : r.id # id}

\* The DELETE statement, its commit and the 200.
delete_expense_write(t) ==
  /\ pc[t] = "delete"
  /\ store' = Deleted(store, req[t].id)
  /\ rowcount' = [rowcount EXCEPT ![t] = Cardinality(SelectById(store, req[t].id))]
  /\ Return(t, Message("Expense deleted successfully", 0), "closed")
  /\ UNCHANGED <<seq, issued, req, count>>

\* DELETE /api/expenses, up to the COUNT(*).
delete_all_expenses_count(t) ==
  /\ Accept(t, Request("delete_all", 0, NoBody, 0, 0))
  /\ count' = [count EXCEPT ![t] = Cardinality(store)]
  /\ rowcount' = [rowcount EXCEPT ![t] = 0]
  /\ Goto(t, "delete_all")
  /\ UNCHANGED <<store, seq, issued>>

\* DELETE FROM expenses, its commit and the 200 with the count read before.
delete_all_expenses_write(t) ==
  /\ pc[t] = "delete_all"
  /\ store' = {}
  /\ rowcount' = [rowcount EXCEPT ![t] = Cardinality(store)]
  /\ Return(t, Message("Deleted N expenses", count[t]), "closed")
  /\ UNCHANGED <<seq, issued, req, count>>

\* The summary with the average taken over one row too many.
SummaryOffByOne(st) ==
  IF st = {} THEN Response(200, "summary", "", << >>, 0, 0, 0)
  ELSE Response(200, "summary", "", << >>, Cardinality(st), Round2(SumAmount(st), 1),
                Round2(SumAmount(st), Cardinality(st) + 1))

\* COALESCE(SUM(amount), 0), COALESCE(AVG(amount), 0), COUNT(*), the first two
\* rounded to two decimals.
Summary(st) ==
  IF st = {} THEN Response(200, "summary", "", << >>, 0, 0, 0)
  ELSE Response(200, "summary", "", << >>, Cardinality(st), Round2(SumAmount(st), 1),
                Round2(SumAmount(st), Cardinality(st)))

\* GET /api/summary
get_summary(t) ==
  /\ Accept(t, Request("summary", 0, NoBody, 0, 0))
  /\ Return(t, Summary(store), "closed")
  /\ Fresh(t)
  /\ UNCHANGED <<store, seq, issued>>

\* GET /api/expenses/month/<year>/<month>
get_expenses_by_month(t, year, month) ==
  /\ Accept(t, Request("month", 0, NoBody, year, month))
  /\ \E rows \in OrderByDateDesc({r \in store : InRange(r, StartDate(year, month),
                                                         EndDate(year, month))}) :
       Return(t, Array([i \in 1..Len(rows) |-> row_to_dict(rows[i])]), "closed")
  /\ Fresh(t)
  /\ UNCHANGED <<store, seq, issued>>

\* ----------------------------------------------------------------- inputs
\* The server's clock when a create arrives without a date.
Clock == {[y |-> 2026, m |-> 11, d |-> 3, h |-> 8, mi |-> 42, s |-> 0]}

\* A date a client submits.
NewYearsEve == JStr(IsoFormat([y |-> 2026, m |-> 12, d |-> 31, h |-> 23, mi |-> 59, s |-> 59]))

LunchBody == Body(JStr(Lunch), JStr(Food), JNum(250000), JAbsent)
TaxiBody == Body(JStr(Taxi), JStr(Travel), JStr(Text12346), NewYearsEve)

\* Bodies the validation accepts although a field is not of the type the data
\* model names, or is a number SQLite cannot store.
OddBodies ==
  { Body(JNum(5000), JStr(Food), JNum(250000), JAbsent),
    Body(JList(1), JStr(Food), JNum(250000), JAbsent),
    Body(JStr(Lunch), JStr(Food), JStr(TextNan), JAbsent),
    Body(JStr(Lunch), JStr(Food), JNum(250000), JNull) }

\* Bodies that break a validation rule.
BadBodies ==
  { OtherBody("null"), OtherBody("unparseable"), OtherBody("array"),
    Body(JAbsent, JAbsent, JAbsent, JAbsent),
    Body(JStr(EmptyText), JStr(Food), JNum(250000), JAbsent),
    Body(JStr(Lunch), JAbsent, JNum(250000), JAbsent),
    Body(JStr(Lunch), JStr(Food), JNull, JAbsent),
    Body(JStr(Lunch), JStr(Food), JStr(TextAbc), JAbsent),
    Body(JStr(Lunch), JStr(Food), JStr(TextMinus5), JAbsent),
    Body(JStr(Lunch), JStr(Food), JNum(-5000), JAbsent),
    Body(JStr(Lunch), JStr(Food), JNum(0), JAbsent),
    Body(JStr(Lunch), JStr(Food), JList(1), JAbsent) }

\* What a well-behaved client sends, and the two rejected amounts the
\* specification names.
ClientBodies ==
  { LunchBody, TaxiBody,
    Body(JStr(Lunch), JStr(Food), JNum(-5000), JAbsent),
    Body(JStr(Lunch), JStr(Food), JStr(TextAbc), JAbsent) }

\* Every kind of body.
AnyBodies == {LunchBody} \cup OddBodies \cup BadBodies

RowIds == 1..MaxId

\* The worker that serves every request when requests come one at a time.
Main == CHOOSE t \in Workers : \A u \in Workers : t <= u

\* ---------------------------------------------------------- specifications
\* Requests served one at a time, their bodies drawn from B.
Serve(B) ==
  \/ get_expenses(Main)
  \/ \E b \in B, now \in Clock : add_expense(Main, b, now)
  \/ \E id \in RowIds, b \in B : update_expense_select(Main, id, b)
  \/ update_expense_write(Main)
  \/ update_expense_reread(Main)
  \/ \E id \in RowIds : delete_expense_select(Main, id)
  \/ delete_expense_write(Main)
  \/ delete_all_expenses_count(Main)
  \/ delete_all_expenses_write(Main)
  \/ get_summary(Main)

Next == Serve(ClientBodies)

Spec == Init /\ [][Next]_vars

NextBodies == Serve(AnyBodies)

\* The same, with every kind of body.
SpecBodies == Init /\ [][NextBodies]_vars

\* Requests served by all workers at once, interleaved statement by statement.
NextConc ==
  \E t \in Workers :
    \/ \E now \in Clock : add_expense(t, LunchBody, now)
    \/ \E id \in RowIds : update_expense_select(t, id, TaxiBody)
    \/ update_expense_write(t)
    \/ update_expense_reread(t)
    \/ \E id \in RowIds : delete_expense_select(t, id)
    \/ delete_expense_write(t)
    \/ delete_all_expenses_count(t)
    \/ delete_all_expenses_write(t)

SpecConc == Init /\ [][NextConc]_vars

\* Calendar dates a client submits, and the months a client asks for.
Days ==
  { <<999, 12, 5>>, <<2025, 12, 31>>, <<2026, 1, 1>>, <<2026, 12, 1>>, <<2026, 12, 31>>,
    <<2027, 1, 1>> }

DatedBodies ==
  {Body(JStr(Lunch), JStr(Food), JNum(250000), JStr(IsoDate(d[1], d[2], d[3]))) : d \in Days}
    \cup {LunchBody}

QueryYears == {999, 2026}

Months == 1..12

NextMonth ==
  \/ \E b \in DatedBodies, now \in Clock : add_expense(Main, b, now)
  \/ \E y \in QueryYears, m \in Months : get_expenses_by_month(Main, y, m)

\* Creates with dates, and the month query.
SpecMonth == Init /\ [][NextMonth]_vars

\* ----------------------------------------------------------------- claims
Range(f) == {f[i] : i \in 1..Len(f)}

\* The worker has answered a request of this kind with this status.
Answered(t, kind, status) == pc[t] = "done" /\ req[t].kind = kind /\ resp[t].status = status

\* C1: no successful create returns an id that an earlier create has returned,
\* whether the record with that id is still stored or was deleted since; and
\* every stored record's id is one a create returned.
C1_IdsNeverReused ==
  /\ \A i, j \in 1..Len(issued) : i # j => issued[i] # issued[j]
  /\ Ids(store) \subseteq Range(issued)
  /\ \A t \in Workers : Answered(t, "create", 201) => resp[t].rows[1].id \in Range(issued)

\* C1 witness: a create has succeeded after the only record before it, the one
\* with the largest id so far, was deleted.
C1_Witness ==
  /\ Answered(Main, "create", 201)
  /\ Len(issued) = 2
  /\ Ids(store) = {issued[2]}
  /\ resp[Main].rows[1].id = issued[2]

\* C2: every stored record has a positive amount, a title that is not empty and
\* a category that is not empty.
C2_StoredRecordsValid ==
  \A r \in store : r.amount > 0 /\ r.title # EmptyText /\ r.category # EmptyText

\* C2 witness: an update with a body whose title is a number has been stored
\* over a record that a create had inserted.
C2_Witness ==
  /\ Answered(Main, "update", 200)
  /\ req[Main].body.title.t = "num"
  /\ \E r \in store : r.id = req[Main].id /\ r.title = NumText(req[Main].body.title.n)

\* The validation rules of the specification, read off its words: the body is
\* there and parses, title and category are there and not empty, amount is
\* there, parses as a number and is above zero.
Missing(v) == IsNone(v) \/ (v.t = "str" /\ v.s = EmptyText)

Unparseable(v) ==
  \/ v.t = "str" /\ ParseFloat(v.s).k = "ValueError"
  \/ v.t \notin {"str", "num"}

NotPositive(v) ==
  \/ v.t = "num" /\ v.n <= 0
  \/ v.t = "str" /\ ParseFloat(v.s).k = "ok" /\ ParseFloat(v.s).v <= 0

BreaksARule(b) ==
  \/ b.kind \in {"null", "unparseable"}
  \/ /\ b.kind = "object"
     /\ \/ Missing(b.title) \/ Missing(b.category) \/ IsNone(b.amount)
        \/ Unparseable(b.amount) \/ NotPositive(b.amount)

\* C3: a create or update whose body breaks a validation rule is answered 400,
\* and the step that answers it leaves the table as it was.
C3_InvalidAnswered400 ==
  [][\A t \in Workers :
       (req'[t].kind \in {"create", "update"} /\ BreaksARule(req'[t].body) /\ pc'[t] = "done")
         => (resp'[t].status = 400 /\ store' = store)]_vars

\* A body that is valid by the data model: title and category are texts that
\* are not empty, amount is a number or its text and is above zero.
WellFormed(b) ==
  /\ b.kind = "object"
  /\ b.title.t = "str" /\ b.title.s # EmptyText
  /\ b.category.t = "str" /\ b.category.s # EmptyText
  /\ b.amount.t \in {"num", "str"}
  /\ PyFloat(b.amount).k = "ok" /\ PyFloat(b.amount).v > 0

\* C4: the UPDATE of a valid update whose id exists gives that record the
\* submitted title, category and amount, keeps its id and date and keeps every
\* other record; a valid update whose id does not exist is answered 404 and
\* changes no record.
C4_UpdateFrame ==
  [][\A t \in Workers :
       /\ (pc[t] = "update" /\ pc'[t] # "update" /\ WellFormed(req[t].body)
             /\ req[t].id \in Ids(store))
            => /\ {r \in store' : r.id # req[t].id} = {r \in store : r.id # req[t].id}
               /\ \E old \in store :
                    /\ old.id = req[t].id
                    /\ {r \in store' : r.id = req[t].id}
                         = {[id |-> old.id, date |-> old.date,
                             title |-> req[t].body.title.s,
                             category |-> req[t].body.category.s,
                             amount |-> PyFloat(req[t].body.amount).v]}
       /\ (Free(t) /\ req'[t].kind = "update" /\ WellFormed(req'[t].body)
             /\ req'[t].id \notin Ids(store))
            => (pc'[t] = "done" /\ resp'[t].status = 404 /\ store' = store)]_vars

\* C4 witness: a valid update has been answered 200, the record carries the
\* submitted title and the date it was created with, and another record is
\* stored beside it.
C4_Witness ==
  /\ Answered(Main, "update", 200)
  /\ req[Main].body = TaxiBody
  /\ Cardinality(store) >= 2
  /\ \E r \in store : r.id = req[Main].id /\ r.title = Taxi /\ r.date # NewYearsEve.s

\* C5: with requests served one at a time, the DELETE of a delete-one whose id
\* exists removes exactly that record and is answered 200, and a delete-one of
\* the same id that follows it at once is answered 404 and changes nothing.
C5_DeleteTwice ==
  [][\A t \in Workers :
       /\ (Free(t) /\ req'[t].kind = "delete" /\ req'[t].id \in Ids(store))
            => (pc'[t] = "delete" /\ store' = store)
       /\ (pc[t] = "delete" /\ pc'[t] # "delete")
            => /\ pc'[t] = "done" /\ resp'[t].status = 200
               /\ store' = {r \in store : r.id # req[t].id}
               /\ Cardinality(store') = Cardinality(store) - 1
       /\ (Answered(t, "delete", 200) /\ req'[t].kind = "delete" /\ req'[t].id = req[t].id)
            => (pc'[t] = "done" /\ resp'[t].status = 404 /\ store' = store)]_vars

\* C5 witness: a delete-one of an id that a create had returned, and that is
\* stored no more, has been answered 404 while other records are stored.
C5_Witness ==
  /\ Answered(Main, "delete", 404)
  /\ req[Main].id \in Range(issued)
  /\ req[Main].id \notin Ids(store)
  /\ store # {}

\* The calendar date an ISO text starts with.
ParseDate(t) ==
  <<DigitsValue(SubSeq(t, 1, 4)), DigitsValue(SubSeq(t, 6, 7)), DigitsValue(SubSeq(t, 9, 10))>>

\* Calendar order of two dates <<year, month, day>>.
DateLess(a, b) ==
  \/ a[1] < b[1]
  \/ a[1] = b[1] /\ a[2] < b[2]
  \/ a[1] = b[1] /\ a[2] = b[2] /\ a[3] < b[3]

FirstOfMonth(year, month) == <<year, month, 1>>

FirstOfNextMonth(year, month) == IF month = 12 THEN <<year + 1, 1, 1>> ELSE <<year, month + 1, 1>>

\* The date lies in the month: first day included, first day of the following
\* month excluded.
InMonth(d, year, month) ==
  ~DateLess(d, FirstOfMonth(year, month)) /\ DateLess(d, FirstOfNextMonth(year, month))

\* C6: the month query returns exactly the stored records whose date lies in
\* the month asked for.
C6_MonthIsCalendarMonth ==
  \A t \in Workers :
    Answered(t, "month", 200) =>
      Range(resp[t].rows)
        = {row_to_dict(r) : r \in {x \in store : InMonth(ParseDate(x.date), req[t].year,
                                                         req[t].month)}}

\* C7 as stated: count is the number of records, total is the sum of the amounts
\* and average is total divided by count; all three are 0 on an empty table.
C7_SummaryExact ==
  \A t \in Workers :
    Answered(t, "summary", 200) =>
      /\ resp[t].n = Cardinality(store)
      /\ resp[t].total = SumAmount(store)
      /\ resp[t].average * resp[t].n = resp[t].total
      /\ store = {} => (resp[t].total = 0 /\ resp[t].average = 0 /\ resp[t].n = 0)

\* x is a whole number of hundredths, and none is nearer to num / den.
NearestHundredth(x, num, den) ==
  /\ x % 10 = 0
  /\ 2 * (x * den - num) <= 10 * den
  /\ 2 * (num - x * den) <= 10 * den

\* C7 amended: count is the number of records; total is the sum of the amounts
\* and average their mean, each rounded to two decimals; all three are 0 on an
\* empty table.
C7_SummaryRounded ==
  \A t \in Workers :
    Answered(t, "summary", 200) =>
      /\ resp[t].n = Cardinality(store)
      /\ store = {} => (resp[t].total = 0 /\ resp[t].average = 0 /\ resp[t].n = 0)
      /\ store # {} =>
           /\ NearestHundredth(resp[t].total, SumAmount(store), 1)
           /\ NearestHundredth(resp[t].average, SumAmount(store), Cardinality(store))

\* C7 witness: a summary of two records or more whose sum is not a whole number
\* of hundredths and whose mean is not either.
C7_Witness ==
  /\ Answered(Main, "summary", 200)
  /\ Cardinality(store) >= 2
  /\ resp[Main].total # SumAmount(store)
  /\ resp[Main].average * resp[Main].n # SumAmount(store)

\* C8: the DELETE of a delete-all leaves the table empty, and the N of its
\* message is the number of records that DELETE removed.
C8_DeleteAllReportsRemoved ==
  [][\A t \in Workers :
       (pc[t] = "delete_all" /\ pc'[t] = "done")
         => (store' = {} /\ resp'[t].status = 200 /\ resp'[t].n = Cardinality(store))]_vars

\* C9: list-all returns every stored record once, newest date first; and the
\* list that follows a successful create at once holds the record of the
\* create's response.
C9_ListAfterCreate ==
  [][\A t \in Workers :
       (req'[t].kind = "list" /\ pc'[t] = "done")
         => /\ resp'[t].status = 200
            /\ Len(resp'[t].rows) = Cardinality(store)
            /\ Range(resp'[t].rows) = {row_to_dict(r) : r \in store}
            /\ \A i \in 1..(Len(resp'[t].rows) - 1) :
                 TextLeq(resp'[t].rows[i + 1].date.s, resp'[t].rows[i].date.s)
            /\ Answered(t, "create", 201) => resp[t].rows[1] \in Range(resp'[t].rows)]_vars

\* C10: every update is answered 200, 404 or 400.
C10_UpdateStatus ==
  \A t \in Workers : (pc[t] = "done" /\ req[t].kind = "update") => resp[t].status \in {200, 404, 400}

\* C11: a handler that has returned has left no connection open, whatever
\* it answered, and one that answered 400 opened none.
C11_ConnectionsClosed ==
  \A t \in Workers :
    pc[t] = "done" => /\ conn[t] # "open"
                      /\ resp[t].status = 400 => conn[t] = "none"

\* Two delete-one requests for the same id are both answered 200.
BothDeleted(t, u) ==
  /\ t # u
  /\ Answered(t, "delete", 200)
  /\ Answered(u, "delete", 200)
  /\ req[t].id = req[u].id

\* C12: of the delete-one requests for one id, at most one is answered 200
\* "Expense deleted successfully".
C12_OneDeleteAnswered200 == \A t, u \in Workers : ~BothDeleted(t, u)
====
